---- MODULE Spec2Model ----
(***************************************************************************)
(* Model of scripts/update_tsv_to_columns.py: the rewrite of a TSV         *)
(* template from '#key=value' header comments to metadata columns          *)
(* (update_tsv_file, parse_headers) and the batch driver (main).           *)
(*                                                                         *)
(* A Python str is a sequence of one-character strings; the file is the    *)
(* sequence of characters stored on disk.                                  *)
(***************************************************************************)
EXTENDS Integers, Sequences, FiniteSets, TLC

\* ------------------------------------------------------------------ bounds

\* Largest number of lines of a document.
MaxLines == 3

\* Number of times the script is run on the same file.
MaxRuns == 2

\* Largest number of version directories of a template directory.
MaxVersions == 2

\* ------------------------------------------------------- characters, strings

NL == "\n"

TAB == "\t"

HASH == "#"

EQ == "="

\* Characters str.strip() removes (the ASCII ones of str.isspace()).
Whitespace == {" ", "\t", "\n", "\r", "\f"}

\* Characters the regular expression's \w matches (the ASCII ones).
WordChars ==
  {"a","b","c","d","e","f","g","h","i","j","k","l","m","n","o","p","q","r","s",
   "t","u","v","w","x","y","z","A","B","C","D","E","F","G","H","I","J","K","L","M",
   "N","O","P","Q","R","S","T","U","V","W","X","Y","Z","0","1","2","3","4","5","6",
   "7","8","9","_"}

\* The absent value: no str equals it (its element is not one character).
None == <<"None">>

VersionCol ==
  <<"c","o","m","m","e","n","t","[","s","d","r","f"," ","v","e","r","s","i","o","n","]">>

TemplateCol ==
  <<"c","o","m","m","e","n","t","[","s","d","r","f"," ","t","e","m","p","l","a","t","e","]">>

ToolCol ==
  <<"c","o","m","m","e","n","t","[","s","d","r","f"," ","a","n","n","o","t","a","t","i","o","n",
    " ","t","o","o","l","]">>

DefaultVersion == <<"v","1",".","1",".","0">>

VersionKey == <<"v","e","r","s","i","o","n">>

TemplateKey == <<"t","e","m","p","l","a","t","e">>

\* s[from:] of Python, from counted from 1.
Tail_from(s, from) == SubSeq(s, from, Len(s))

\* s.startswith(p)
startswith(s, p) == Len(s) >= Len(p) /\ SubSeq(s, 1, Len(p)) = p

\* sub in s
contains(s, sub) ==
  \E i \in 0..(Len(s) - Len(sub)) : SubSeq(s, i + 1, i + Len(sub)) = sub

\* s.split(sep) for a one-character separator: always at least one part.
RECURSIVE split(_, _)
split(s, sep) ==
  IF \A i \in 1..Len(s) : s[i] # sep
  THEN <<s>>
  ELSE LET k == CHOOSE i \in 1..Len(s) : s[i] = sep /\ \A j \in 1..(i - 1) : s[j] # sep
       IN  <<SubSeq(s, 1, k - 1)>> \o split(Tail_from(s, k + 1), sep)

\* sep.join(parts)
RECURSIVE join(_, _)
join(sep, parts) ==
  IF Len(parts) = 0 THEN <<>>
  ELSE IF Len(parts) = 1 THEN parts[1]
  ELSE parts[1] \o <<sep>> \o join(sep, Tail(parts))

\* s.strip(): leading and trailing whitespace removed.
strip(s) ==
  LET keep == {i \in 1..Len(s) : s[i] \notin Whitespace}
  IN  IF keep = {} THEN <<>>
      ELSE LET lo == CHOOSE i \in keep : \A j \in keep : i <= j
               hi == CHOOSE i \in keep : \A j \in keep : j <= i
           IN  SubSeq(s, lo, hi)

\* bool(s) of a str: non-empty.
truthy(s) == Len(s) > 0

\* re.match(r"#(\w+)=(.+)", line): the groups (key, value), or None.
\* \w+ takes the longest run of word characters after '#', '=' must follow it, and
\* .+ takes the characters up to the first newline, at least one.
re_match(line) ==
  IF ~(Len(line) >= 1 /\ line[1] = HASH) THEN None
  ELSE LET stop == {i \in 2..(Len(line) + 1) : i = Len(line) + 1 \/ line[i] \notin WordChars}
           e    == CHOOSE i \in stop : \A j \in stop : i <= j
           rest == Tail_from(line, e + 1)
           nls  == {i \in 1..(Len(rest) + 1) : i = Len(rest) + 1 \/ rest[i] = NL}
           n    == CHOOSE i \in nls : \A j \in nls : i <= j
       IN  IF e = 2 \/ e > Len(line) \/ line[e] # EQ \/ n = 1 THEN None
           ELSE <<SubSeq(line, 2, e - 1), SubSeq(rest, 1, n - 1)>>

\* ------------------------------------------------------------ parse_headers

\* parse_line keeping the first '#version=' value instead of the last.
parse_line_first_version(metadata, line) ==
  LET match == IF startswith(line, <<HASH>>) THEN re_match(line) ELSE None
  IN  IF match # None /\ match[1] = VersionKey /\ metadata.version = DefaultVersion
      THEN [version |-> match[2], templates |-> metadata.templates]
      ELSE IF match # None /\ match[1] = TemplateKey
      THEN [version |-> metadata.version, templates |-> Append(metadata.templates, match[2])]
      ELSE metadata

\* One iteration of the loop of parse_headers over a line.
parse_line(metadata, line) ==
  LET match == IF startswith(line, <<HASH>>) THEN re_match(line) ELSE None
  IN  IF match # None /\ match[1] = VersionKey
      THEN [version |-> match[2], templates |-> metadata.templates]
      ELSE IF match # None /\ match[1] = TemplateKey
      THEN [version |-> metadata.version, templates |-> Append(metadata.templates, match[2])]
      ELSE metadata

\* metadata after the loop of parse_headers has passed the first k lines of ls.
RECURSIVE parse_loop(_, _)
parse_loop(ls, k) ==
  IF k = 0 THEN [version |-> DefaultVersion, templates |-> <<>>]
  ELSE parse_line(parse_loop(ls, k - 1), ls[k])

\* parse_headers reading only the lines that precede the header row.
parse_headers_before_header(c) ==
  CHOOSE metadata \in
    {parse_loop(ls, Cardinality({i \in 1..Len(ls) :
                       \A j \in 1..i : ~(truthy(strip(ls[j])) /\ ~startswith(ls[j], <<HASH>>))}))
       : ls \in {split(c, NL)}} : TRUE

\* lines = content.split("\n") is evaluated once and the loop runs over its value.
parse_headers(c) ==
  CHOOSE metadata \in {parse_loop(ls, Len(ls)) : ls \in {split(c, NL)}} : TRUE

\* ---------------------------------------------------------- update_tsv_file

\* is_header_row without the test for a comment.
is_header_row_no_comment_test(line) == truthy(strip(line))

\* is_header_row testing the line untrimmed.
is_header_row_untrimmed(line) == truthy(line) /\ ~startswith(line, <<HASH>>)

\* Whether the scan for the header row stops at this line.
is_header_row(line) == truthy(strip(line)) /\ ~startswith(line, <<HASH>>)

\* The index (counted from 0) where the scan for the header row breaks, or -1.
find_header_idx(ls) ==
  LET hits == {i \in 1..Len(ls) : is_header_row(ls[i])}
  IN  IF hits = {} THEN -1 ELSE (CHOOSE i \in hits : \A j \in hits : i <= j) - 1

\* has_column by equality instead of containment.
has_column_exact(cols, name) == \E i \in 1..Len(cols) : cols[i] = name

has_column(cols, name) == \E i \in 1..Len(cols) : contains(cols[i], name)

\* n copies of column name appended to cols.
RECURSIVE append_times(_, _, _)
append_times(cols, name, n) ==
  IF n = 0 THEN cols ELSE append_times(Append(cols, name), name, n - 1)

add_version(cols, has_version) ==
  IF ~has_version THEN Append(cols, VersionCol) ELSE cols

\* add_templates without the presence check.
add_templates_unchecked(cols, has_template, md) ==
  IF Len(md.templates) > 0
  THEN append_times(cols, TemplateCol, Len(md.templates))
  ELSE Append(cols, TemplateCol)

add_templates(cols, has_template, md) ==
  IF ~has_template
  THEN IF Len(md.templates) > 0
       THEN append_times(cols, TemplateCol, Len(md.templates))
       ELSE Append(cols, TemplateCol)
  ELSE cols

add_tool(cols, has_tool) ==
  IF ~has_tool THEN Append(cols, ToolCol) ELSE cols

build_columns(cols, md) ==
  LET has_version  == has_column(cols, VersionCol)
      has_template == has_column(cols, TemplateCol)
      has_tool     == has_column(cols, ToolCol)
  IN  add_tool(add_templates(add_version(cols, has_version), has_template, md), has_tool)

\* get_data_lines dropping only the header row.
get_data_lines_all_but_header(ls, idx) == SubSeq(ls, 1, idx) \o Tail_from(ls, idx + 2)

\* lines[header_idx + 1:]
get_data_lines(ls, idx) == Tail_from(ls, idx + 2)

\* line_output without the test for a blank line.
line_output_keep_blank(line) == line \o <<NL>>

\* What the loop over data_lines writes for one line.
line_output(line) == IF truthy(strip(line)) THEN line \o <<NL>> ELSE <<>>

\* ------------------------------------------------------------------- main

TEMPLATES ==
  <<"base", "human", "vertebrates", "invertebrates", "plants", "cell-lines",
    "single-cell", "ms-proteomics", "affinity-proteomics", "dda-acquisition",
    "dia-acquisition", "crosslinking", "immunopeptidomics", "metaproteomics",
    "olink", "somascan">>

\* A template directory: absent, or its version directories in iteration order, each
\* with (TRUE) or without the template's .sdrf.tsv file.
TemplateDirs ==
  {[exists |-> FALSE, versions |-> <<>>]}
    \cup {[exists |-> TRUE, versions |-> v] :
            v \in UNION {[1..n -> BOOLEAN] : n \in 0..MaxVersions}}

\* find_tsv_file: the file of the first version directory that has one, or None.
find_tsv_file(name, dir) ==
  IF ~dir.exists THEN None
  ELSE LET with_tsv == {i \in 1..Len(dir.versions) : dir.versions[i]}
       IN  IF with_tsv = {} THEN None
           ELSE <<name, CHOOSE i \in with_tsv : \A j \in with_tsv : i <= j>>

\* count_update whatever update_tsv_file returned.
count_update_always(n, ok) == n + 1

\* updated after a call of update_tsv_file that returned ok.
count_update(n, ok) == IF ok THEN n + 1 ELSE n

\* ------------------------------------------------------------ input lines

\* an empty line
L_empty == <<>>

\* a line of whitespace only
L_blank == <<" ","\t">>

\* '#version=2'
L_version2 == <<"#","v","e","r","s","i","o","n","=","2">>

\* '#version=3'
L_version3 == <<"#","v","e","r","s","i","o","n","=","3">>

\* '#template=h'
L_human == <<"#","t","e","m","p","l","a","t","e","=","h">>

\* '#template=c'
L_cell == <<"#","t","e","m","p","l","a","t","e","=","c">>

\* a comment with another identifier
L_bogus == <<"#","b","o","g","u","s","=","x">>

\* a '#template=' comment with no value
L_novalue == <<"#","t","e","m","p","l","a","t","e","=">>

\* two tab-separated fields
L_plain == <<"s","\t","c">>

\* a '#' after a leading space: not a comment for startswith
L_indented == <<" ","#","a">>

\* a column that contains the version column name without being it
L_loose == <<"c","o","m","m","e","n","t","[","s","d","r","f"," ","v","e","r","s","i","o","n","]","x">>

\* the template column and the annotation tool column
L_tool ==
  <<"c","o","m","m","e","n","t","[","s","d","r","f"," ","t","e","m","p","l","a","t","e","]",
   "\t","c","o","m","m","e","n","t","[","s","d","r","f"," ","a","n","n","o","t","a","t","i","o","n"," ","t","o","o","l","]">>

LinePool ==
  {L_empty, L_blank, L_version2, L_version3, L_human, L_cell,
   L_bogus, L_novalue, L_plain, L_indented, L_loose, L_tool}

\* The documents: 1..MaxLines lines of the pool, joined by newlines.
Documents ==
  {join(NL, ls) : ls \in UNION {[1..n -> LinePool] : n \in 1..MaxLines}}

\* -------------------------------------------------------------- the state

VARIABLES
  file,             \* the characters stored in the target file
  buffer,           \* characters written to the open handle and not yet stored
  pc,               \* position in update_tsv_file
  run,              \* which run of the script on this file
  content,          \* locals of update_tsv_file
  metadata,
  lines,
  header_line,
  header_idx,
  columns,
  new_columns,
  new_header_line,
  data_lines,
  wi,               \* number of data_lines the write loop has passed
  result,           \* the value update_tsv_file returned
  before,           \* history: the file when the current run started
  outs,             \* history: the result and the file at the end of each run
  mpc,              \* position in main
  mi,               \* number of TEMPLATES the for loop has taken
  template_name,    \* locals of main
  tsv_path,
  updated,
  visited,          \* history: the templates the loop body was entered for
  n_found,          \* history: templates for which find_tsv_file found a file
  n_calls,          \* history: calls of update_tsv_file
  n_good            \* history: files found that had a header row

vars ==
  <<file, buffer, pc, run, content, metadata, lines, header_line, header_idx, columns,
    new_columns, new_header_line, data_lines, wi, result, before, outs,
    mpc, mi, template_name, tsv_path, updated, visited, n_found, n_calls, n_good>>

mainvars == <<mpc, mi, template_name, tsv_path, updated, visited, n_found, n_calls, n_good>>

locals ==
  <<content, metadata, lines, header_line, header_idx, columns, new_columns,
    new_header_line, data_lines, wi>>

\* ------------------------------------------- what the claims are stated with

\* The lines of the document the current run started from.
InputLines == split(before, NL)

NonBlank(l) == \E i \in 1..Len(l) : l[i] \notin Whitespace

IsComment(l) == Len(l) > 0 /\ l[1] = HASH

Min(S) == CHOOSE i \in S : \A j \in S : i <= j

\* Positions (from 1) of the lines of ls that are not blank and not comments.
HeaderRows(ls) == {i \in 1..Len(ls) : NonBlank(ls[i]) /\ ~IsComment(ls[i])}

\* The lines of ls located strictly after its header row.
AfterHeader(ls) == Tail_from(ls, Min(HeaderRows(ls)) + 1)

\* The lines of ls located before its header row.
BeforeHeader(ls) == SubSeq(ls, 1, Min(HeaderRows(ls)) - 1)

\* A line of the form '#<key>=<value>', the value not empty.
HasKey(l, key) == startswith(l, <<HASH>> \o key \o <<EQ>>) /\ Len(l) > Len(key) + 2

ValueOf(l, key) == Tail_from(l, Len(key) + 3)

\* The values of the '#<key>=<value>' lines of ls, in line order.
ValuesOf(ls, key) ==
  LET hits == SelectSeq(ls, LAMBDA l : HasKey(l, key))
  IN  [i \in 1..Len(hits) |-> ValueOf(hits[i], key)]

\* The value of the last '#version=<value>' line of ls, or the default.
VersionOf(ls) ==
  LET vs == ValuesOf(ls, VersionKey)
  IN  IF Len(vs) = 0 THEN DefaultVersion ELSE vs[Len(vs)]

Copies(n, col) == [i \in 1..n |-> col]

Max(a, b) == IF a >= b THEN a ELSE b

CountOf(cols, col) == Cardinality({i \in 1..Len(cols) : cols[i] = col})

Succeeded == pc = "done" /\ result = "True"

\* The run has located a header row and built the new header.
Located == pc \in {"open", "write_header", "write_lines"} \/ Succeeded

NoMetadata == [version |-> <<>>, templates |-> <<>>]

\* The locals before update_tsv_file has assigned them.
LocalsUnset ==
  /\ content = <<>>
  /\ metadata = NoMetadata
  /\ lines = <<>>
  /\ header_line = None
  /\ header_idx = 0
  /\ columns = <<>>
  /\ new_columns = <<>>
  /\ new_header_line = <<>>
  /\ data_lines = <<>>
  /\ wi = 0

\* The locals of main before main has assigned them.
MainUnset ==
  /\ mi = 0
  /\ template_name = None
  /\ tsv_path = None
  /\ updated = 0
  /\ visited = <<>>
  /\ n_found = 0
  /\ n_calls = 0
  /\ n_good = 0

Init ==
  /\ file \in Documents
  /\ buffer = <<>>
  /\ pc = "read"
  /\ run = 1
  /\ LocalsUnset
  /\ result = "none"
  /\ before = file
  /\ outs = <<>>
  /\ mpc = "off"
  /\ MainUnset

\* with open(tsv_path) as f: content = f.read(); metadata = parse_headers(content)
ReadParse ==
  /\ pc = "read"
  /\ content' = file
  /\ metadata' = parse_headers(file)
  /\ pc' = "find"
  /\ UNCHANGED <<file, buffer, run, lines, header_line, header_idx, columns, new_columns,
                 new_header_line, data_lines, wi, result, before, outs>>
  /\ UNCHANGED mainvars

\* lines = content.split("\n") and the scan for the header row.
FindHeader ==
  /\ pc = "find"
  /\ lines' = split(content, NL)
  /\ LET idx == find_header_idx(lines')
     IN  /\ header_idx' = IF idx = -1 THEN 0 ELSE idx
         /\ header_line' = IF idx = -1 THEN None ELSE lines'[idx + 1]
  /\ pc' = "check"
  /\ UNCHANGED <<file, buffer, run, content, metadata, columns, new_columns,
                 new_header_line, data_lines, wi, result, before, outs>>
  /\ UNCHANGED mainvars

\* if header_line is None: return False
NoHeaderRow ==
  /\ pc = "check"
  /\ header_line = None
  /\ result' = "False"
  /\ outs' = Append(outs, [ok |-> FALSE, file |-> file])
  /\ pc' = "done"
  /\ UNCHANGED <<file, buffer, run, locals, before>>
  /\ UNCHANGED mainvars

\* columns, new_columns, new_header_line and data_lines.
BuildHeader ==
  /\ pc = "check"
  /\ header_line # None
  /\ columns' = split(header_line, TAB)
  /\ new_columns' = build_columns(columns', metadata)
  /\ new_header_line' = join(TAB, new_columns')
  /\ data_lines' = get_data_lines(lines, header_idx)
  /\ pc' = "open"
  /\ UNCHANGED <<file, buffer, run, content, metadata, lines, header_line, header_idx, wi,
                 result, before, outs>>
  /\ UNCHANGED mainvars

\* open(tsv_path, "w"): the file is truncated.
OpenWrite ==
  /\ pc = "open"
  /\ file' = <<>>
  /\ buffer' = <<>>
  /\ pc' = "write_header"
  /\ UNCHANGED <<run, locals, result, before, outs>>
  /\ UNCHANGED mainvars

\* f.write(new_header_line + "\n")
WriteHeader ==
  /\ pc = "write_header"
  /\ buffer' = buffer \o new_header_line \o <<NL>>
  /\ wi' = 0
  /\ pc' = "write_lines"
  /\ UNCHANGED <<file, run, content, metadata, lines, header_line, header_idx, columns,
                 new_columns, new_header_line, data_lines, result, before, outs>>
  /\ UNCHANGED mainvars

\* One iteration of: for line in data_lines: if line.strip(): f.write(line + "\n")
WriteDataLine ==
  /\ pc = "write_lines"
  /\ wi < Len(data_lines)
  /\ buffer' = buffer \o line_output(data_lines[wi + 1])
  /\ wi' = wi + 1
  /\ UNCHANGED <<file, pc, run, content, metadata, lines, header_line, header_idx, columns,
                 new_columns, new_header_line, data_lines, result, before, outs>>
  /\ UNCHANGED mainvars

\* The open handle stores what was written so far (its buffer is flushed).
Flush ==
  /\ pc \in {"write_header", "write_lines"}
  /\ buffer # <<>>
  /\ file' = file \o buffer
  /\ buffer' = <<>>
  /\ UNCHANGED <<pc, run, locals, result, before, outs>>
  /\ UNCHANGED mainvars

\* The with block ends (the handle is flushed and closed); return True
CloseReturn ==
  /\ pc = "write_lines"
  /\ wi = Len(data_lines)
  /\ file' = file \o buffer
  /\ buffer' = <<>>
  /\ result' = "True"
  /\ outs' = Append(outs, [ok |-> TRUE, file |-> file'])
  /\ pc' = "done"
  /\ UNCHANGED <<run, locals, before>>
  /\ UNCHANGED mainvars

\* The script is run again on the file it left.
Rerun ==
  /\ mpc = "off"
  /\ pc = "done"
  /\ run < MaxRuns
  /\ run' = run + 1
  /\ pc' = "read"
  /\ content' = <<>>
  /\ metadata' = NoMetadata
  /\ lines' = <<>>
  /\ header_line' = None
  /\ header_idx' = 0
  /\ columns' = <<>>
  /\ new_columns' = <<>>
  /\ new_header_line' = <<>>
  /\ data_lines' = <<>>
  /\ wi' = 0
  /\ result' = "none"
  /\ before' = file
  /\ UNCHANGED <<file, buffer, outs>>
  /\ UNCHANGED mainvars

Next ==
  \/ ReadParse
  \/ FindHeader
  \/ NoHeaderRow
  \/ BuildHeader
  \/ OpenWrite
  \/ WriteHeader
  \/ WriteDataLine
  \/ Flush
  \/ CloseReturn
  \/ Rerun

Spec == Init /\ [][Next]_vars

\* ------------------------------------------------------------- main's run

\* The documents a discovered file may hold: an empty file, comments only, and a
\* header comment followed by a header row and a data row.
MainDocuments == {L_empty, L_version2, join(NL, <<L_human, L_plain, L_plain>>)}

\* Whether each of them has a line that is not blank and not a comment.
has_header_row == [d \in MainDocuments |-> HeaderRows(split(d, NL)) # {}]

filevars ==
  <<file, buffer, pc, run, content, metadata, lines, header_line, header_idx, columns,
    new_columns, new_header_line, data_lines, wi, result, before, outs>>

InitMain ==
  /\ file = <<>>
  /\ buffer = <<>>
  /\ pc = "off"
  /\ run = 1
  /\ LocalsUnset
  /\ result = "none"
  /\ before = <<>>
  /\ outs = <<>>
  /\ mpc = "loop"
  /\ MainUnset

\* for template_name in TEMPLATES: the loop takes the next template.
MainFor ==
  /\ mpc = "loop"
  /\ mi < Len(TEMPLATES)
  /\ mi' = mi + 1
  /\ template_name' = TEMPLATES[mi + 1]
  /\ visited' = Append(visited, TEMPLATES[mi + 1])
  /\ mpc' = "find"
  /\ UNCHANGED <<tsv_path, updated, n_found, n_calls, n_good, filevars>>

\* tsv_path = find_tsv_file(template_name), over whatever the directory holds; a file
\* found holds some document.
MainFind ==
  /\ mpc = "find"
  /\ \E dir \in TemplateDirs :
       /\ tsv_path' = find_tsv_file(template_name, dir)
       /\ IF tsv_path' = None
          THEN UNCHANGED <<file, n_found, n_good>>
          ELSE /\ file' \in MainDocuments
               /\ n_found' = n_found + 1
               /\ n_good' = IF has_header_row[file'] THEN n_good + 1 ELSE n_good
  /\ mpc' = "found"
  /\ UNCHANGED <<buffer, pc, run, locals, result, before, outs, mi, template_name, updated,
                 visited, n_calls>>

\* if tsv_path is None: print SKIP; continue
MainSkip ==
  /\ mpc = "found"
  /\ tsv_path = None
  /\ mpc' = "loop"
  /\ UNCHANGED <<mi, template_name, tsv_path, updated, visited, n_found, n_calls, n_good,
                 filevars>>

\* update_tsv_file(tsv_path, template_name) is called.
MainCall ==
  /\ mpc = "found"
  /\ tsv_path # None
  /\ n_calls' = n_calls + 1
  /\ mpc' = "call"
  /\ pc' = "read"
  /\ run' = 1
  /\ content' = <<>>
  /\ metadata' = NoMetadata
  /\ lines' = <<>>
  /\ header_line' = None
  /\ header_idx' = 0
  /\ columns' = <<>>
  /\ new_columns' = <<>>
  /\ new_header_line' = <<>>
  /\ data_lines' = <<>>
  /\ wi' = 0
  /\ result' = "none"
  /\ before' = file
  /\ outs' = <<>>
  /\ UNCHANGED <<file, buffer, mi, template_name, tsv_path, updated, visited, n_found, n_good>>

\* update_tsv_file has returned: if it returned True, updated += 1
MainReturn ==
  /\ mpc = "call"
  /\ pc = "done"
  /\ updated' = count_update(updated, result = "True")
  /\ mpc' = "loop"
  /\ pc' = "off"
  /\ UNCHANGED <<file, buffer, run, locals, result, before, outs, mi, template_name,
                 tsv_path, visited, n_found, n_calls, n_good>>

\* The loop is exhausted: print the count.
MainDone ==
  /\ mpc = "loop"
  /\ mi = Len(TEMPLATES)
  /\ mpc' = "done"
  /\ UNCHANGED <<mi, template_name, tsv_path, updated, visited, n_found, n_calls, n_good,
                 filevars>>

NextMain ==
  \/ MainFor
  \/ MainFind
  \/ MainSkip
  \/ MainCall
  \/ ReadParse
  \/ FindHeader
  \/ NoHeaderRow
  \/ BuildHeader
  \/ OpenWrite
  \/ WriteHeader
  \/ WriteDataLine
  \/ Flush
  \/ CloseReturn
  \/ MainReturn
  \/ MainDone

SpecMain == InitMain /\ [][NextMain]_vars

\* main runs to its end: nothing suspends it.
FairSpecMain == SpecMain /\ WF_vars(NextMain)

\* ------------------------------------------------------------------ claims

\* C1: when every line of the document is empty or starts with '#', update_tsv_file
\* returns False, never opens the file for writing, and the file keeps its content.
C1_NoHeaderRowNoWrite ==
  LET ls == InputLines
  IN  (\A i \in 1..Len(ls) : ls[i] = <<>> \/ IsComment(ls[i]))
        => /\ pc \notin {"open", "write_header", "write_lines"}
           /\ file = before
           /\ buffer = <<>>
           /\ pc = "done" => result = "False"

C1_Witness ==
  /\ pc = "done"
  /\ result = "False"
  /\ LET ls == InputLines
     IN  /\ \E i \in 1..Len(ls) : IsComment(ls[i])
         /\ \E i \in 1..Len(ls) : ls[i] = <<>>
         /\ \A i \in 1..Len(ls) : ls[i] = <<>> \/ IsComment(ls[i])

\* C2 as stated: the header row is the first line of length > 0 (no trimming) that
\* does not start with '#'.
C2_Original ==
  pc = "check" =>
    LET ls == InputLines
        untrimmed == {i \in 1..Len(ls) : Len(ls[i]) > 0 /\ ~IsComment(ls[i])}
    IN  IF untrimmed = {} THEN header_line = None
        ELSE header_line = ls[Min(untrimmed)] /\ header_idx = Min(untrimmed) - 1

\* C2 amended: the header row is the first line that is non-empty after trimming
\* whitespace and does not start with '#'; its zero-based index splits the comments
\* from the data rows.
C2_HeaderRowTrimmed ==
  /\ pc = "check" =>
       LET ls == InputLines
           rows == HeaderRows(ls)
       IN  IF rows = {} THEN header_line = None
           ELSE header_line = ls[Min(rows)] /\ header_idx = Min(rows) - 1
  /\ pc = "open" => data_lines = AfterHeader(InputLines)

C2_Witness ==
  /\ pc = "open"
  /\ header_idx = 1
  /\ InputLines[1] = L_blank

\* C3: the new columns are the existing ones (the header split on tab) followed by one
\* version column iff none contains its name, max(1, number of templates) template
\* columns iff none contains its name, one tool column iff none contains its name.
C3_NewColumns ==
  pc = "open" =>
    /\ join(TAB, columns) = header_line
    /\ \A i \in 1..Len(columns) : \A j \in 1..Len(columns[i]) : columns[i][j] # TAB
    /\ new_columns =
         columns
         \o (IF \E i \in 1..Len(columns) : contains(columns[i], VersionCol)
             THEN <<>> ELSE <<VersionCol>>)
         \o (IF \E i \in 1..Len(columns) : contains(columns[i], TemplateCol)
             THEN <<>> ELSE Copies(Max(1, Len(metadata.templates)), TemplateCol))
         \o (IF \E i \in 1..Len(columns) : contains(columns[i], ToolCol)
             THEN <<>> ELSE <<ToolCol>>)

C3_Witness ==
  /\ pc = "open"
  /\ Len(metadata.templates) = 2
  /\ \E i \in 1..Len(columns) : contains(columns[i], VersionCol) /\ columns[i] # VersionCol
  /\ new_columns = columns \o <<TemplateCol, TemplateCol, ToolCol>>

\* C4: parse_headers returns the value of the last '#version=<value>' line, or v1.1.0
\* without one, and the values of all '#template=<value>' lines in line order,
\* duplicates kept; other lines change neither, and nothing but the result changes.
C4_ParseHeaders ==
  pc = "find" =>
    /\ metadata.version = VersionOf(InputLines)
    /\ metadata.templates = ValuesOf(InputLines, TemplateKey)
    /\ file = before
    /\ content = before
    /\ buffer = <<>>

C4_Witness ==
  /\ pc = "find"
  /\ \E l \in {L_bogus, L_novalue} :
       InputLines \in {<<L_version2, L_version3, l>>, <<L_human, L_cell, l>>,
                       <<L_human, l, L_human>>}

\* C5 as stated: after a successful rewrite no line of the file starts with '#'.
C5_Original ==
  Succeeded => LET out == split(file, NL) IN \A i \in 1..Len(out) : ~IsComment(out[i])

\* C5 amended: after a successful rewrite the first line of the file, the header, does
\* not start with '#', and the lines of the file that start with '#' are exactly the
\* '#' lines located after the header row in the input: those before it are removed.
C5_LeadingCommentsRemoved ==
  Succeeded =>
    LET out == split(file, NL)
    IN  /\ ~IsComment(out[1])
        /\ SelectSeq(out, IsComment) = SelectSeq(AfterHeader(InputLines), IsComment)

C5_Witness ==
  /\ Succeeded
  /\ run = 1
  /\ LET ls == InputLines
     IN  /\ IsComment(ls[1])
         /\ Len(AfterHeader(ls)) > 0
         /\ SelectSeq(AfterHeader(ls), IsComment) = <<>>

\* C6: after a successful rewrite the lines after the new header are the input lines
\* located after the header row that are not blank, in order and unchanged, each
\* terminated by a newline: 1 + (number of such lines) lines in all.
C6_DataRows ==
  Succeeded =>
    split(file, NL)
      = <<new_header_line>> \o SelectSeq(AfterHeader(InputLines), NonBlank) \o <<L_empty>>

C6_Witness ==
  /\ Succeeded
  /\ run = 1
  /\ Len(new_columns) > Len(columns)
  /\ LET data == AfterHeader(InputLines)
     IN  Len(data) = 2 /\ ~NonBlank(data[1]) /\ data[2] = L_plain

\* C7: a second run on the file a successful run produced succeeds and leaves the
\* file as the first run left it.
C7_Idempotent ==
  \A k \in 2..Len(outs) :
    outs[k - 1].ok => outs[k].ok /\ outs[k].file = outs[k - 1].file

C7_Witness ==
  /\ run = 2
  /\ Len(outs) = 2
  /\ outs[1].ok
  /\ outs[2].ok
  /\ Len(new_columns) = Len(columns)
  /\ \E i \in 1..Len(InputLines) : IsComment(InputLines[i])

\* C8: the file always holds either the original content or the complete output
\* document, never a truncated or partly written one.
C8_NeverPartial ==
  \/ file = before
  \/ /\ Located
     /\ split(file, NL)
          = <<new_header_line>> \o SelectSeq(AfterHeader(InputLines), NonBlank) \o <<L_empty>>

\* C10 as stated: the metadata comes only from the '#key=value' lines that precede
\* the header row.
C10_Original ==
  pc = "open" =>
    LET ls == BeforeHeader(InputLines)
    IN  /\ metadata.templates = ValuesOf(ls, TemplateKey)
        /\ metadata.version = VersionOf(ls)

\* C10 amended: the metadata comes from the '#key=value' lines of the whole document,
\* those after the header row included, so each '#template=<value>' line anywhere
\* counts for the number of template columns appended.
C10_WholeDocument ==
  pc = "open" =>
    LET ls == InputLines
        all == ValuesOf(BeforeHeader(ls), TemplateKey) \o ValuesOf(AfterHeader(ls), TemplateKey)
    IN  /\ metadata.templates = all
        /\ metadata.version = VersionOf(BeforeHeader(ls) \o AfterHeader(ls))
        /\ (\A i \in 1..Len(columns) : ~contains(columns[i], TemplateCol))
             => CountOf(new_columns, TemplateCol) = Max(1, Len(all))

C10_Witness ==
  /\ pc = "open"
  /\ LET ls == InputLines
     IN  /\ ValuesOf(BeforeHeader(ls), TemplateKey) = <<>>
         /\ Len(ValuesOf(AfterHeader(ls), TemplateKey)) = 2
  /\ CountOf(new_columns, TemplateCol) = 2

\* C9: main takes every template once, in list order; a template without a file is
\* skipped without a call of update_tsv_file, a failed update does not stop the loop,
\* the batch reaches its end, and updated counts the files found that were rewritten.
C9_BatchInv ==
  /\ visited = SubSeq(TEMPLATES, 1, mi)
  /\ mpc \in {"loop", "done"} => n_calls = n_found /\ updated = n_good
  /\ mpc = "found" => n_calls = n_found - (IF tsv_path = None THEN 0 ELSE 1)
  /\ mpc = "call" => n_calls = n_found
  /\ mpc = "done" => visited = TEMPLATES

C9_Batch == []C9_BatchInv /\ <>(mpc = "done")

C9_Witness ==
  /\ mpc = "done"
  /\ updated = 3
  /\ n_found = 7
  /\ result = "False"
  /\ tsv_path = None

====
